---- MODULE Spec2Model ----
(***************************************************************************)
(* A model of src/monitoring.py: the MetricsCollector (two bounded deques  *)
(* and the per-endpoint aggregate table), its two queries get_stats and    *)
(* get_health_status, and the RequestLogger ingestion path.                *)
(*                                                                         *)
(* Units.  response_time is a float number of seconds in the source; the   *)
(* model holds it as an integer number of milliseconds.  The clock `now`   *)
(* (datetime.now()) is an integer number of seconds.  A value the source   *)
(* rounds to two decimals (round(x, 2)) is held as the integer number of   *)
(* hundredths, one rounded to three decimals as the number of thousandths. *)
(* An Optional value is a sequence: <<>> is None, <<v>> is the value v.    *)
(***************************************************************************)
EXTENDS Integers, Sequences, FiniteSets, TLC

VARIABLES
    collector,        \* the MetricsCollector object: a record of its attributes (see MetricsCollector)
    now,              \* the wall clock, datetime.now()
    history,          \* ghost: every RequestMetrics passed to add_request, in call order
    snap_history,     \* ghost: every SystemMetrics passed to add_system_metrics, in call order
    last_op,          \* the operation that ran last
    stats_result,     \* what the last get_stats call returned (Optional), followed by what
                      \* the call before it returned if nothing was inserted in between
    health_stats,     \* the local `stats` of the last get_health_status call (Optional)
    health_result,    \* what the last get_health_status call returned (Optional)
    last_log,         \* the lines the last call handed to the logger
    raised,           \* whether the last call raised to its caller
    writers,          \* the request-handling threads: each one's place in add_request and its locals
    reader,           \* the querying thread: its place in get_stats and its locals
    system_monitor,   \* the SystemMonitor object: a record of its attributes
    loops,            \* the start_monitoring coroutines: each one's place and locals
    response          \* the last monitoring_middleware call (Optional): what call_next did,
                      \* what the middleware did in turn, and the samples it ingested

ghostVars == <<history, snap_history>>
queryVars == <<stats_result, health_stats, health_result>>
threadVars == <<writers, reader>>
serviceVars == <<system_monitor, loops, response>>
vars == <<collector, now, ghostVars, last_op, queryVars, last_log, raised, threadVars,
          serviceVars>>

----------------------------------------------------------------------------
(* Bounds of the model and constants of the program *)

\* capacity the collectors of Spec are built with (max_requests)
Capacity == 2
\* add_request calls made in one behaviour of Spec
MaxCalls == 3
\* add_system_metrics calls made in one behaviour of Spec
MaxSnapshots == 1
\* maxlen of the system_metrics deque
SnapshotCapacity == 100
\* max_requests when the constructor is given none
DefaultMaxRequests == 1000

----------------------------------------------------------------------------
(* Inputs *)

\* (method, endpoint) pairs
ReqPairs == { <<"GET", "/api/test">>, <<"POST", "/api/test">> }
StatusCodes == {200, 400}
ResponseTimes == {3000, 7000}
CpuValues == {90, 95}
MemValues == {90, 95}

\* RequestMetrics (lines 25-35); user_agent, ip_address are carried and never read
RequestMetrics(endpoint, method, status_code, response_time, timestamp, error_message) ==
    [endpoint |-> endpoint, method |-> method, status_code |-> status_code,
     response_time |-> response_time, timestamp |-> timestamp,
     error_message |-> error_message]

\* SystemMetrics (lines 37-45); memory_used_mb, memory_available_mb and
\* disk_usage_percent are carried and never read
SystemMetrics(cpu_percent, memory_percent, timestamp) ==
    [cpu_percent |-> cpu_percent, memory_percent |-> memory_percent,
     timestamp |-> timestamp]

----------------------------------------------------------------------------
(* Library semantics the source relies on *)

\* a bounded append that refuses the new item when full
DequeAppendKeepsOldest(buf, x, maxlen) ==
    IF Len(buf) < maxlen THEN Append(buf, x) ELSE buf

\* deque(maxlen).append: a full deque drops its leftmost item; maxlen 0 keeps nothing
DequeAppend(buf, x, maxlen) ==
    IF maxlen = 0 THEN buf
    ELSE IF Len(buf) < maxlen THEN Append(buf, x)
    ELSE Append(Tail(buf), x)

\* round(): to the nearest integer, a tie to the even one (num >= 0, den > 0)
RoundHalfEven(num, den) ==
    LET q == num \div den
        r == num % den
    IN  IF 2 * r < den THEN q
        ELSE IF 2 * r > den THEN q + 1
        ELSE IF q % 2 = 0 THEN q ELSE q + 1

RECURSIVE SumSeq(_)
SumSeq(s) == IF s = <<>> THEN 0 ELSE Head(s) + SumSeq(Tail(s))

----------------------------------------------------------------------------
(* MetricsCollector *)

\* the dict the defaultdict's factory builds (lines 54-59)
NewStats == [count |-> 0, total_time |-> 0, errors |-> 0, last_called |-> <<>>]

\* MetricsCollector.__init__ (lines 50-60).  requests_state is the mutation
\* counter of the requests deque, which its iterators compare; dicts is the heap
\* of the dict objects the factory has built, endpoint_stats maps an endpoint
\* key to the index of its dict and endpoint_keys lists the keys of
\* endpoint_stats in the order they were inserted, the order a dict iterates in.
MetricsCollector(max_requests, t) ==
    [max_requests |-> max_requests,
     requests |-> <<>>,
     requests_state |-> 0,
     system_metrics |-> <<>>,
     dicts |-> <<>>,
     endpoint_stats |-> <<>>,
     endpoint_keys |-> <<>>,
     start_time |-> t]

\* endpoint_key = f"{metrics.method} {metrics.endpoint}" (line 67)
EndpointKey(metrics) == metrics.method \o " " \o metrics.endpoint

\* an error test that counts server errors only
IsErrorServerOnly(metrics) == metrics.status_code >= 500

\* whether add_request counts the sample as an error (line 73)
IsError(metrics) == metrics.status_code >= 400

\* lines 69-74 on the dict `stats`
UpdateStats(stats, metrics) ==
    [count |-> stats.count + 1,
     total_time |-> stats.total_time + metrics.response_time,
     errors |-> IF IsError(metrics) THEN stats.errors + 1 ELSE stats.errors,
     last_called |-> <<metrics.timestamp>>]

\* self.requests.append(metrics) (line 64)
AppendRequest(self, metrics) ==
    [self EXCEPT !.requests = DequeAppend(@, metrics, self.max_requests),
                 !.requests_state = @ + 1]

\* stats = self.endpoint_stats[endpoint_key] (line 68): a missing key gets the
\* factory's dict
LookupStats(self, key) ==
    IF key \in DOMAIN self.endpoint_stats THEN self
    ELSE [self EXCEPT !.dicts = Append(@, NewStats),
                      !.endpoint_stats = @ @@ (key :> Len(self.dicts) + 1),
                      !.endpoint_keys = Append(@, key)]

\* an add_request that takes the evicted sample out of its endpoint's count
add_request_uncounting(self, metrics) ==
    LET full == self.max_requests > 0 /\ Len(self.requests) = self.max_requests
        appended == AppendRequest(self, metrics)
        key == EndpointKey(metrics)
        looked == LookupStats(appended, key)
        id == looked.endpoint_stats[key]
        added == [looked EXCEPT !.dicts[id] = UpdateStats(@, metrics)]
        old == added.endpoint_stats[EndpointKey(self.requests[1])]
    IN  IF full THEN [added EXCEPT !.dicts[old].count = @ - 1] ELSE added

\* MetricsCollector.add_request (lines 62-74), run without interruption
add_request(self, metrics) ==
    LET appended == AppendRequest(self, metrics)
        key == EndpointKey(metrics)
        looked == LookupStats(appended, key)
        id == looked.endpoint_stats[key]
    IN  [looked EXCEPT !.dicts[id] = UpdateStats(@, metrics)]

\* a snapshot insertion that starts every endpoint's aggregate anew
add_system_metrics_resetting(self, metrics) ==
    [self EXCEPT !.system_metrics = DequeAppend(@, metrics, SnapshotCapacity),
                 !.dicts = [i \in DOMAIN self.dicts |-> NewStats]]

\* MetricsCollector.add_system_metrics (line 81)
add_system_metrics(self, metrics) ==
    [self EXCEPT !.system_metrics = DequeAppend(@, metrics, SnapshotCapacity)]

\* the dict of an endpoint key in the table
StatsOf(self, key) == self.dicts[self.endpoint_stats[key]]

----------------------------------------------------------------------------
(* Queries *)

\* timedelta(minutes=5) in seconds (line 96)
RecentWindow == 300
\* the thresholds of get_health_status (lines 141, 144, 148, 150)
ErrorRateLimit == 10
ResponseTimeLimit == 5000
CpuLimit == 90
MemoryLimit == 90
\* the thresholds of add_system_metrics' warnings (lines 84, 86)
HighUsageLimit == 80
\* the threshold of log_request's slow request line (line 238), in milliseconds
SlowRequestLimit == 10000

\* round(x, 2) of the fraction num / den, in hundredths; the guards of lines
\* 100, 104, 112, 113 give 0 when den = 0
Round2(num, den) == IF den > 0 THEN RoundHalfEven(num * 100, den) ELSE 0

\* endpoint_summary[endpoint] (lines 112-120) from the dict `stats`:
\* avg_response_time in thousandths of a second, error_rate in hundredths of a percent
EndpointSummary(stats) ==
    [calls |-> stats.count,
     avg_response_time |->
         IF stats.count > 0 THEN RoundHalfEven(stats.total_time, stats.count) ELSE 0,
     error_rate |-> Round2(stats.errors * 100, stats.count),
     last_called |-> stats.last_called]

\* a recency filter that keeps a sample that is exactly five minutes old
RecentRequestsInclusive(reqs, t) ==
    SelectSeq(reqs, LAMBDA r : t - r.timestamp <= RecentWindow)

\* the samples of the buffer that line 96 keeps
RecentRequests(reqs, t) == SelectSeq(reqs, LAMBDA r : t - r.timestamp < RecentWindow)
\* an error filter that misses status 400
ErrorRequestsAbove400(reqs) == SelectSeq(reqs, LAMBDA r : r.status_code > 400)
\* the samples of the buffer that line 99 keeps
ErrorRequests(reqs) == SelectSeq(reqs, LAMBDA r : r.status_code >= 400)
\* line 103
ResponseTimesOf(reqs) == [i \in 1..Len(reqs) |-> reqs[i].response_time]

\* a current_system that takes the oldest buffered snapshot
CurrentSystemOldest(self) ==
    IF Len(self.system_metrics) > 0 THEN <<self.system_metrics[1]>> ELSE <<>>

\* current_system (lines 107, 129)
CurrentSystem(self) ==
    IF Len(self.system_metrics) > 0
    THEN <<self.system_metrics[Len(self.system_metrics)]>>
    ELSE <<>>

\* a get_stats that takes its error rate over the last five minutes only
get_stats_recent_errors(self, t) ==
    [uptime_seconds |-> t - self.start_time,
     total_requests |-> Len(self.requests),
     recent_requests_5min |-> Len(RecentRequests(self.requests, t)),
     error_rate_percent |->
         Round2(Len(ErrorRequests(RecentRequests(self.requests, t))) * 100,
                Len(RecentRequests(self.requests, t))),
     avg_response_time_ms |->
         Round2(SumSeq(ResponseTimesOf(self.requests)), Len(self.requests)),
     current_system |-> CurrentSystem(self),
     endpoints |-> [k \in DOMAIN self.endpoint_stats |-> EndpointSummary(StatsOf(self, k))],
     timestamp |-> t]

\* MetricsCollector.get_stats (lines 89-132) at time t, run without interruption.
\* uptime_human is uptime_seconds in another format and is left out;
\* error_rate_percent and avg_response_time_ms are in hundredths.
get_stats(self, t) ==
    [uptime_seconds |-> t - self.start_time,
     total_requests |-> Len(self.requests),
     recent_requests_5min |-> Len(RecentRequests(self.requests, t)),
     error_rate_percent |->
         Round2(Len(ErrorRequests(self.requests)) * 100, Len(self.requests)),
     avg_response_time_ms |->
         Round2(SumSeq(ResponseTimesOf(self.requests)), Len(self.requests)),
     current_system |-> CurrentSystem(self),
     endpoints |-> [k \in DOMAIN self.endpoint_stats |-> EndpointSummary(StatsOf(self, k))],
     timestamp |-> t]

\* the four rules of get_health_status (lines 141-151), each the list of the
\* issues it appends
ErrorRateRule(stats) ==
    IF stats.error_rate_percent > ErrorRateLimit * 100
    THEN << [issue |-> "High error rate", value |-> stats.error_rate_percent] >>
    ELSE <<>>

ResponseTimeRule(stats) ==
    IF stats.avg_response_time_ms > ResponseTimeLimit * 100
    THEN << [issue |-> "Slow response time", value |-> stats.avg_response_time_ms] >>
    ELSE <<>>

CpuRule(stats) ==
    IF stats.current_system # <<>> /\ stats.current_system[1].cpu_percent > CpuLimit
    THEN << [issue |-> "High CPU", value |-> stats.current_system[1].cpu_percent] >>
    ELSE <<>>

\* a memory rule that triggers at the threshold
MemoryRuleAtThreshold(stats) ==
    IF stats.current_system # <<>> /\ stats.current_system[1].memory_percent >= MemoryLimit
    THEN << [issue |-> "High memory", value |-> stats.current_system[1].memory_percent] >>
    ELSE <<>>

MemoryRule(stats) ==
    IF stats.current_system # <<>> /\ stats.current_system[1].memory_percent > MemoryLimit
    THEN << [issue |-> "High memory", value |-> stats.current_system[1].memory_percent] >>
    ELSE <<>>

\* health_issues after line 151
HealthIssues(stats) ==
    ErrorRateRule(stats) \o ResponseTimeRule(stats) \o CpuRule(stats) \o MemoryRule(stats)

\* a verdict that turns unhealthy only above three issues
HealthStatusAboveThree(health_issues) ==
    IF Len(health_issues) = 0 THEN "healthy"
    ELSE IF Len(health_issues) <= 3 THEN "degraded"
    ELSE "unhealthy"

\* line 153
HealthStatus(health_issues) ==
    IF Len(health_issues) = 0 THEN "healthy"
    ELSE IF Len(health_issues) < 3 THEN "degraded"
    ELSE "unhealthy"

\* a read that looks a key up in the defaultdict, which inserts a missing key
AfterReadWithLookup(self) == LookupStats(self, "GET /health")

\* the collector after get_stats has read it: the comprehensions of lines 96-104
\* and the loop over endpoint_stats.items() (line 111) assign to no attribute
\* and look no key up in the defaultdict
AfterRead(self) == self

\* the dict get_health_status returns (lines 155-161) for its local `stats`
HealthOf(stats, t) ==
    [status |-> HealthStatus(HealthIssues(stats)),
     issues |-> HealthIssues(stats),
     uptime |-> stats.uptime_seconds,
     total_requests |-> stats.total_requests,
     timestamp |-> t]

----------------------------------------------------------------------------
(* Logging *)

\* a logger that lets the sink's exception through
LoggerPropagates(sink_ok) == ~sink_ok

\* A call of logger.info / warning / error with a sink that fails: the handlers
\* that logging.basicConfig installs (lines 19-23) catch the sink's exception
\* (Handler.handleError), so the call returns and nothing is raised to the caller.
LoggerRaises(sink_ok) == FALSE

\* the line of add_request (lines 76-77)
RequestLine(metrics) ==
    [level |-> "INFO", tag |-> "Request", key |-> EndpointKey(metrics),
     status_code |-> metrics.status_code]

\* special cases that test the elapsed time whatever the status code
SpecialCaseLinesAlsoSlow(metrics) ==
    (IF metrics.status_code >= 500
     THEN << [level |-> "ERROR", tag |-> "Server error", key |-> EndpointKey(metrics),
              status_code |-> metrics.status_code] >>
     ELSE IF metrics.status_code >= 400
     THEN << [level |-> "WARNING", tag |-> "Client error", key |-> EndpointKey(metrics),
              status_code |-> metrics.status_code] >>
     ELSE <<>>)
    \o
    (IF metrics.response_time > SlowRequestLimit
     THEN << [level |-> "WARNING", tag |-> "Slow request", key |-> EndpointKey(metrics),
              status_code |-> metrics.status_code] >>
     ELSE <<>>)

\* the lines of log_request's special cases (lines 234-239)
SpecialCaseLines(metrics) ==
    IF metrics.status_code >= 500
    THEN << [level |-> "ERROR", tag |-> "Server error", key |-> EndpointKey(metrics),
             status_code |-> metrics.status_code] >>
    ELSE IF metrics.status_code >= 400
    THEN << [level |-> "WARNING", tag |-> "Client error", key |-> EndpointKey(metrics),
             status_code |-> metrics.status_code] >>
    ELSE IF metrics.response_time > SlowRequestLimit
    THEN << [level |-> "WARNING", tag |-> "Slow request", key |-> EndpointKey(metrics),
             status_code |-> metrics.status_code] >>
    ELSE <<>>

\* the lines of add_system_metrics (lines 84-87)
UsageLines(metrics) ==
    (IF metrics.cpu_percent > HighUsageLimit
     THEN << [level |-> "WARNING", tag |-> "High CPU usage"] >> ELSE <<>>)
    \o
    (IF metrics.memory_percent > HighUsageLimit
     THEN << [level |-> "WARNING", tag |-> "High memory usage"] >> ELSE <<>>)

----------------------------------------------------------------------------
(* Threads *)

Writers == {"w1", "w2"}

\* a request-handling thread outside log_request: pc is its place, calls the
\* number of log_request calls it has made, and metrics, stats (the index of a
\* dict) and tmp (a value loaded from it) the locals of add_request
IdleWriter == [pc |-> "idle", calls |-> 0, metrics |-> <<>>, stats |-> 0, tmp |-> 0]

\* the querying thread outside get_health_status: pc is its place, calls the
\* number of calls it has made, it_state the state of the requests deque and
\* it_size the size of endpoint_stats when the running iterator was made, next
\* the place in endpoint_keys of the loop of line 111, total_time / count /
\* errors the fields read at lines 112-116, and stats the locals of get_stats
IdleReader ==
    [pc |-> "idle", calls |-> 0, it_state |-> 0, it_size |-> 0, next |-> 0,
     count |-> 0, total_time |-> 0, errors |-> 0, stats |-> <<>>]

\* SystemMonitor.__init__ (lines 166-168)
SystemMonitor == [monitoring |-> FALSE]

\* the start_monitoring coroutines that can be created
Loops == {"l1", "l2"}

\* the `interval` of start_monitoring when it is given none (line 170), in seconds
DefaultInterval == 30

\* a start_monitoring coroutine that has not been created.  pc is its place:
\* "idle" (not created), "requested" (created, its body not yet entered),
\* "check" (at the while of line 175), "try" (inside the try block, its sample
\* in flight), "sleep" (line 193), "sleep_err" (line 197), "done" (returned);
\* slept is the seconds the running asyncio.sleep has lasted.  Ghosts: stopped
\* says that stop_monitoring has been called since the coroutine was created,
\* failures counts its failed iterations and after_stop the snapshots it has
\* inserted since stop_monitoring was called (both counted up to 2).
IdleLoop ==
    [pc |-> "idle", slept |-> 0, stopped |-> FALSE, failures |-> 0, after_stop |-> 0]

----------------------------------------------------------------------------
(* Operations, each run without interruption *)

NoResults ==
    /\ stats_result' = <<>>
    /\ health_stats' = <<>>
    /\ health_result' = <<>>

\* collector.add_request(RequestMetrics(..., timestamp=datetime.now())), lines 62-77
AddRequest(endpoint, method, status_code, response_time, sink_ok) ==
    LET metrics == RequestMetrics(endpoint, method, status_code, response_time, now, <<>>)
    IN  /\ collector' = add_request(collector, metrics)
        /\ history' = Append(history, metrics)
        /\ last_log' = << [line |-> RequestLine(metrics), sink_ok |-> sink_ok] >>
        /\ raised' = LoggerRaises(sink_ok)
        /\ last_op' = "add_request"
        /\ NoResults
        /\ UNCHANGED <<now, serviceVars, snap_history, threadVars>>

\* RequestLogger.log_request / log_request_metrics (lines 210-239, 262-265).
\* sinks[1] and sinks[2] say whether the log sink works for the line of
\* add_request and for the special-case line.  An exception of the logger in
\* add_request (line 76) leaves add_request and log_request at once.
LogRequest(endpoint, method, status_code, response_time, error_message, sinks) ==
    LET metrics == RequestMetrics(endpoint, method, status_code, response_time, now,
                                  error_message)
        first == << [line |-> RequestLine(metrics), sink_ok |-> sinks[1]] >>
        special == [i \in 1..Len(SpecialCaseLines(metrics)) |->
                       [line |-> SpecialCaseLines(metrics)[i], sink_ok |-> sinks[2]]]
    IN  /\ collector' = add_request(collector, metrics)
        /\ history' = Append(history, metrics)
        /\ IF LoggerRaises(sinks[1])
           THEN last_log' = first /\ raised' = TRUE
           ELSE /\ last_log' = first \o special
                /\ raised' = (special # <<>> /\ LoggerRaises(sinks[2]))
        /\ last_op' = "log_request"
        /\ NoResults
        /\ UNCHANGED <<now, serviceVars, snap_history, threadVars>>

\* collector.add_system_metrics(SystemMetrics(..., timestamp=datetime.now())), lines 79-87
AddSystemMetrics(cpu_percent, memory_percent) ==
    LET metrics == SystemMetrics(cpu_percent, memory_percent, now)
    IN  /\ collector' = add_system_metrics(collector, metrics)
        /\ snap_history' = Append(snap_history, metrics)
        /\ last_log' = [i \in 1..Len(UsageLines(metrics)) |->
                           [line |-> UsageLines(metrics)[i], sink_ok |-> TRUE]]
        /\ raised' = FALSE
        /\ last_op' = "add_system_metrics"
        /\ NoResults
        /\ UNCHANGED <<now, serviceVars, history, threadVars>>

\* collector.get_stats() / get_monitoring_stats(), lines 89-132, 246-248
GetStats ==
    /\ stats_result' = << get_stats(collector, now) >> \o
                           (IF stats_result = <<>> THEN <<>> ELSE << stats_result[1] >>)
    /\ health_stats' = <<>>
    /\ health_result' = <<>>
    /\ last_log' = <<>>
    /\ raised' = FALSE
    /\ last_op' = "get_stats"
    /\ collector' = AfterRead(collector)
    /\ UNCHANGED <<now, serviceVars, ghostVars, threadVars>>

\* d seconds pass on the wall clock
Tick(d) ==
    /\ now' = now + d
    /\ UNCHANGED <<collector, ghostVars, last_op, queryVars, last_log, raised, threadVars,
                   serviceVars>>

\* collector.get_health_status() / get_health_check(), lines 134-161, 250-252
GetHealthStatus ==
    /\ health_stats' = << get_stats(collector, now) >>
    /\ health_result' = << HealthOf(get_stats(collector, now), now) >>
    /\ stats_result' = <<>>
    /\ last_log' = <<>>
    /\ raised' = FALSE
    /\ last_op' = "get_health_status"
    /\ collector' = AfterRead(collector)
    /\ UNCHANGED <<now, serviceVars, ghostVars, threadVars>>

----------------------------------------------------------------------------
(* The collector used by one caller at a time *)

\* the collector after the add_request calls of reqs on the collector c, in
\* order: the calls of the first half, then those of the second.  (The test of
\* `mid` makes TLC evaluate the first half before it starts on the second, which
\* keeps its evaluation stack shallow; it is always true.)
RECURSIVE ReplayRequests(_, _)
ReplayRequests(c, reqs) ==
    IF Len(reqs) = 0 THEN c
    ELSE IF Len(reqs) = 1 THEN add_request(c, reqs[1])
    ELSE LET h == Len(reqs) \div 2
             mid == ReplayRequests(c, SubSeq(reqs, 1, h))
         IN  IF mid.requests_state >= 0
             THEN ReplayRequests(mid, SubSeq(reqs, h + 1, Len(reqs)))
             ELSE mid

\* the collector after the add_system_metrics calls of snaps on the collector c
RECURSIVE ReplaySnapshots(_, _)
ReplaySnapshots(c, snaps) ==
    IF Len(snaps) = 0 THEN c
    ELSE IF Len(snaps) = 1 THEN add_system_metrics(c, snaps[1])
    ELSE LET h == Len(snaps) \div 2
             mid == ReplaySnapshots(c, SubSeq(snaps, 1, h))
         IN  IF Len(mid.system_metrics) >= 0
             THEN ReplaySnapshots(mid, SubSeq(snaps, h + 1, Len(snaps)))
             ELSE mid

\* the state after a fresh collector c has served the calls reqs and snaps
InitWith(c, reqs, snaps) ==
    /\ collector = ReplaySnapshots(ReplayRequests(c, reqs), snaps)
    /\ now = 0
    /\ history = reqs
    /\ snap_history = snaps
    /\ last_op = "init"
    /\ stats_result = <<>>
    /\ health_stats = <<>>
    /\ health_result = <<>>
    /\ last_log = <<>>
    /\ raised = FALSE
    /\ writers = [w \in Writers |-> IdleWriter]
    /\ reader = IdleReader
    /\ system_monitor = SystemMonitor
    /\ loops = [l \in Loops |-> IdleLoop]
    /\ response = <<>>

Init == InitWith(MetricsCollector(Capacity, 0), <<>>, <<>>)

Next ==
    \/ /\ Len(history) < MaxCalls
       /\ \E p \in ReqPairs, sc \in StatusCodes, rt \in ResponseTimes :
              AddRequest(p[2], p[1], sc, rt, TRUE)
    \/ /\ Len(snap_history) < MaxSnapshots
       /\ \E cpu \in CpuValues, mem \in MemValues : AddSystemMetrics(cpu, mem)
    \/ GetStats
    \/ GetHealthStatus

Spec == Init /\ [][Next]_vars

----------------------------------------------------------------------------
(* What the claims speak of *)

Min(a, b) == IF a < b THEN a ELSE b

\* the last n items of seq (all of seq when it has fewer)
LastN(seq, n) == SubSeq(seq, Len(seq) - Min(Len(seq), n) + 1, Len(seq))

\* the places of seq whose item has endpoint key `key`
PlacesOf(seq, key) == {i \in 1..Len(seq) : EndpointKey(seq[i]) = key}

\* the places of seq whose item has a status code of 400 or more
ErrorPlaces(seq) == {i \in 1..Len(seq) : seq[i].status_code >= 400}

\* the endpoint keys of the samples ever passed to add_request
IngestedKeys == {EndpointKey(history[i]) : i \in 1..Len(history)}

\* v is the number of hundredths nearest to 100 * num / den
NearestPercent(v, num, den) ==
    LET d == v * den - 10000 * num IN 2 * d <= den /\ -2 * d <= den

----------------------------------------------------------------------------
(* The two buffers: collectors of every capacity up to Capacity, whose     *)
(* system_metrics deque already holds SnapPrefill snapshots                *)

\* snapshots the collector of SpecFifo has taken before the behaviour starts
SnapPrefill == 98
\* add_system_metrics calls made in one behaviour of SpecFifo
FifoSnapshots == 3

FifoSnapPrefix == [i \in 1..SnapPrefill |-> SystemMetrics(90, 90, 0)]

InitFifo == \E n \in 0..Capacity : InitWith(MetricsCollector(n, 0), <<>>, FifoSnapPrefix)

NextFifo ==
    \/ /\ Len(history) < MaxCalls
       /\ \E p \in ReqPairs, sc \in StatusCodes : AddRequest(p[2], p[1], sc, 3000, TRUE)
    \/ /\ Len(snap_history) < SnapPrefill + FifoSnapshots
       /\ \E cpu \in CpuValues : AddSystemMetrics(cpu, 90)
    \/ GetStats

SpecFifo == InitFifo /\ [][NextFifo]_vars

\* C1: after k add_request calls on a collector of capacity N the request buffer
\* holds exactly the last min(k, N) samples passed, in the order passed (so it
\* never holds more than N and a full buffer loses exactly its oldest sample),
\* get_stats reports total_requests = min(k, N), and the snapshot buffer holds
\* the last min(k, 100) snapshots passed to add_system_metrics.
C1_FifoBuffers ==
    /\ collector.requests = LastN(history, collector.max_requests)
    /\ Len(collector.requests) = Min(Len(history), collector.max_requests)
    /\ collector.system_metrics = LastN(snap_history, SnapshotCapacity)
    /\ Len(collector.system_metrics) = Min(Len(snap_history), SnapshotCapacity)
    /\ stats_result # <<>> =>
           stats_result[1].total_requests = Min(Len(history), collector.max_requests)

\* both buffers have evicted, the request buffer holds two different samples, and
\* get_stats has reported
C1_Witness ==
    /\ collector.max_requests = 2
    /\ Len(history) > 2
    /\ collector.requests[1] # collector.requests[2]
    /\ history[1] # collector.requests[1]
    /\ Len(snap_history) > SnapshotCapacity
    /\ collector.system_metrics[SnapshotCapacity] # collector.system_metrics[1]
    /\ stats_result # <<>>

\* C2: for every endpoint key, the count of its aggregate is the number of samples
\* ever passed to add_request for that key, whether or not they are still buffered
\* (so it grows by one per matching call and eviction never lowers it).
C2_CountIsLifetime ==
    /\ DOMAIN collector.endpoint_stats = IngestedKeys
    /\ \A key \in DOMAIN collector.endpoint_stats :
           StatsOf(collector, key).count = Cardinality(PlacesOf(history, key))

\* a key whose count exceeds the number of its samples still buffered
C2_Witness ==
    \E key \in DOMAIN collector.endpoint_stats :
        /\ StatsOf(collector, key).count = 2
        /\ Cardinality(PlacesOf(collector.requests, key)) = 1
        /\ Len(history) > collector.max_requests

\* C8: the error_rate_percent of get_stats is 100 * (buffered samples with
\* status_code >= 400) / total_requests over the samples now in the buffer, to the
\* nearest hundredth: 0 for an empty buffer, 0 when no buffered sample is an error,
\* 100 when all are; an evicted error sample does not count.
C8_ErrorRateOverBuffer ==
    stats_result # <<>> =>
        LET n == Len(collector.requests)
            e == Cardinality(ErrorPlaces(collector.requests))
            v == stats_result[1].error_rate_percent
        IN  /\ n = stats_result[1].total_requests
            /\ n = 0 => v = 0
            /\ n > 0 => NearestPercent(v, e, n)
            /\ e = 0 => v = 0
            /\ (n > 0 /\ e = n) => v = 10000

\* get_stats reports 0 percent although an error sample was ingested: it has been
\* evicted
C8_Witness ==
    /\ stats_result # <<>>
    /\ stats_result[1].error_rate_percent = 0
    /\ stats_result[1].total_requests = 2
    /\ ErrorPlaces(history) # {}

----------------------------------------------------------------------------
(* Request-handling threads and a querying thread on one collector.  The   *)
(* source takes no lock, so the threads interleave between any two         *)
(* accesses of the collector: each step below is one such access.          *)

\* log_request calls each request-handling thread makes
ConcCalls == 1
\* get_health_status calls the querying thread makes
ConcQueries == 1

\* log_request up to the call of add_request (lines 220-231, 62)
W_Call(w, endpoint, method, status_code, response_time) ==
    LET metrics == RequestMetrics(endpoint, method, status_code, response_time, now, <<>>)
    IN  /\ writers[w].pc = "idle"
        /\ writers[w].calls < ConcCalls
        /\ writers' = [writers EXCEPT ![w].pc = "append", ![w].calls = @ + 1,
                                      ![w].metrics = <<metrics>>]
        /\ history' = Append(history, metrics)
        /\ UNCHANGED <<collector, now, serviceVars, snap_history, last_op, queryVars, last_log,
                       raised, reader>>

\* self.requests.append(metrics) (line 64)
W_Append(w) ==
    /\ writers[w].pc = "append"
    /\ collector' = AppendRequest(collector, writers[w].metrics[1])
    /\ writers' = [writers EXCEPT ![w].pc = "lookup"]
    /\ UNCHANGED <<now, serviceVars, ghostVars, last_op, queryVars, last_log, raised, reader>>

\* stats = self.endpoint_stats[endpoint_key] (line 68) when the key is there; when
\* it is missing, defaultdict.__missing__ calls the factory, which builds a dict
\* that is not yet in the table
W_Lookup(w) ==
    LET key == EndpointKey(writers[w].metrics[1])
    IN  /\ writers[w].pc = "lookup"
        /\ IF key \in DOMAIN collector.endpoint_stats
           THEN /\ writers' = [writers EXCEPT ![w].pc = "load_count",
                                              ![w].stats = collector.endpoint_stats[key]]
                /\ UNCHANGED collector
           ELSE /\ collector' = [collector EXCEPT !.dicts = Append(@, NewStats)]
                /\ writers' = [writers EXCEPT ![w].pc = "setitem",
                                              ![w].stats = Len(collector.dicts) + 1]
        /\ UNCHANGED <<now, serviceVars, ghostVars, last_op, queryVars, last_log, raised, reader>>

\* defaultdict.__missing__ stores the factory's dict under the key, whatever the
\* table holds for it by now (line 68)
W_SetItem(w) ==
    LET key == EndpointKey(writers[w].metrics[1])
    IN  /\ writers[w].pc = "setitem"
        /\ collector' =
               [collector EXCEPT
                   !.endpoint_stats =
                       IF key \in DOMAIN @ THEN [@ EXCEPT ![key] = writers[w].stats]
                       ELSE @ @@ (key :> writers[w].stats),
                   !.endpoint_keys =
                       IF key \in DOMAIN collector.endpoint_stats THEN @
                       ELSE Append(@, key)]
        /\ writers' = [writers EXCEPT ![w].pc = "load_count"]
        /\ UNCHANGED <<now, serviceVars, ghostVars, last_op, queryVars, last_log, raised, reader>>

\* the load of an augmented assignment of lines 69, 70, 74
W_Load(w) ==
    LET d == collector.dicts[writers[w].stats]
    IN  /\ writers[w].pc \in {"load_count", "load_time", "load_errors"}
        /\ writers' =
               [writers EXCEPT
                   ![w].tmp = CASE writers[w].pc = "load_count" -> d.count
                                [] writers[w].pc = "load_time" -> d.total_time
                                [] OTHER -> d.errors,
                   ![w].pc = CASE writers[w].pc = "load_count" -> "store_count"
                               [] writers[w].pc = "load_time" -> "store_time"
                               [] OTHER -> "store_errors"]
        /\ UNCHANGED <<collector, now, serviceVars, ghostVars, last_op, queryVars, last_log,
                       raised, reader>>

\* stats['count'] = <loaded> + 1 (line 69)
W_StoreCount(w) ==
    /\ writers[w].pc = "store_count"
    /\ collector' = [collector EXCEPT !.dicts[writers[w].stats].count = writers[w].tmp + 1]
    /\ writers' = [writers EXCEPT ![w].pc = "load_time", ![w].tmp = 0]
    /\ UNCHANGED <<now, serviceVars, ghostVars, last_op, queryVars, last_log, raised, reader>>

\* stats['total_time'] = <loaded> + metrics.response_time (line 70)
W_StoreTime(w) ==
    /\ writers[w].pc = "store_time"
    /\ collector' = [collector EXCEPT !.dicts[writers[w].stats].total_time =
                                          writers[w].tmp + writers[w].metrics[1].response_time]
    /\ writers' = [writers EXCEPT ![w].pc = "store_last", ![w].tmp = 0]
    /\ UNCHANGED <<now, serviceVars, ghostVars, last_op, queryVars, last_log, raised, reader>>

\* stats['last_called'] = metrics.timestamp and the test of line 73 (lines 71-73)
W_StoreLast(w) ==
    /\ writers[w].pc = "store_last"
    /\ collector' = [collector EXCEPT !.dicts[writers[w].stats].last_called =
                                          <<writers[w].metrics[1].timestamp>>]
    /\ writers' = [writers EXCEPT
                      ![w].pc = IF IsError(writers[w].metrics[1]) THEN "load_errors"
                                ELSE "log"]
    /\ UNCHANGED <<now, serviceVars, ghostVars, last_op, queryVars, last_log, raised, reader>>

\* stats['errors'] = <loaded> + 1 (line 74)
W_StoreErrors(w) ==
    /\ writers[w].pc = "store_errors"
    /\ collector' = [collector EXCEPT !.dicts[writers[w].stats].errors = writers[w].tmp + 1]
    /\ writers' = [writers EXCEPT ![w].pc = "log", ![w].tmp = 0]
    /\ UNCHANGED <<now, serviceVars, ghostVars, last_op, queryVars, last_log, raised, reader>>

\* the log lines and the return of add_request and log_request (lines 76-77, 234-239)
W_Return(w) ==
    /\ writers[w].pc = "log"
    /\ writers' = [writers EXCEPT ![w] = [IdleWriter EXCEPT !.calls = writers[w].calls]]
    /\ UNCHANGED <<collector, now, serviceVars, ghostVars, last_op, queryVars, last_log, raised, reader>>


\* get_health_status calls get_stats, which reads the clock, the start time and
\* len(self.requests) (lines 136, 91-95)
R_Call ==
    /\ reader.pc = "idle"
    /\ reader.calls < ConcQueries
    /\ reader' = [reader EXCEPT
                     !.pc = "recent_begin",
                     !.calls = @ + 1,
                     !.stats = [uptime_seconds |-> now - collector.start_time,
                                total_requests |-> Len(collector.requests),
                                recent_requests_5min |-> 0,
                                error_rate_percent |-> 0,
                                avg_response_time_ms |-> 0,
                                current_system |-> <<>>,
                                endpoints |-> <<>>,
                                timestamp |-> now]]
    /\ NoResults
    /\ UNCHANGED <<collector, now, serviceVars, ghostVars, last_op, last_log, raised, writers>>

\* a comprehension of line 96, 99 or 103 makes its iterator over self.requests
R_IterBegin ==
    /\ reader.pc \in {"recent_begin", "errors_begin", "times_begin"}
    /\ reader' = [reader EXCEPT
                     !.it_state = collector.requests_state,
                     !.pc = CASE reader.pc = "recent_begin" -> "recent_end"
                              [] reader.pc = "errors_begin" -> "errors_end"
                              [] OTHER -> "times_end"]
    /\ UNCHANGED <<collector, now, serviceVars, ghostVars, last_op, queryVars, last_log, raised, writers>>

\* the comprehension has run to the iterator's last step: the deque's iterator
\* raises RuntimeError when the deque was mutated since it was made, and else has
\* yielded the items of the deque (lines 96, 99-100, 103-104)
R_IterEnd ==
    /\ reader.pc \in {"recent_end", "errors_end", "times_end"}
    /\ IF collector.requests_state # reader.it_state
       THEN /\ reader' = [reader EXCEPT !.pc = "raised"]
            /\ raised' = TRUE
       ELSE /\ reader' =
                   CASE reader.pc = "recent_end" ->
                            [reader EXCEPT
                                !.pc = "errors_begin",
                                !.it_state = 0,
                                !.stats.recent_requests_5min =
                                    Len(RecentRequests(collector.requests,
                                                       reader.stats.timestamp))]
                     [] reader.pc = "errors_end" ->
                            [reader EXCEPT
                                !.pc = "times_begin",
                                !.it_state = 0,
                                !.stats.error_rate_percent =
                                    Round2(Len(ErrorRequests(collector.requests)) * 100,
                                           reader.stats.total_requests)]
                     [] OTHER ->
                            [reader EXCEPT
                                !.pc = "system",
                                !.it_state = 0,
                                !.stats.avg_response_time_ms =
                                    Round2(SumSeq(ResponseTimesOf(collector.requests)),
                                           Len(collector.requests))]
            /\ UNCHANGED raised
    /\ UNCHANGED <<collector, now, serviceVars, ghostVars, last_op, queryVars, last_log, writers>>

\* current_system (line 107)
R_System ==
    /\ reader.pc = "system"
    /\ reader' = [reader EXCEPT !.pc = "endpoints_begin",
                                !.stats.current_system = CurrentSystem(collector)]
    /\ UNCHANGED <<collector, now, serviceVars, ghostVars, last_op, queryVars, last_log, raised, writers>>

\* the loop of line 111 makes its iterator over self.endpoint_stats.items()
R_EndpointsBegin ==
    /\ reader.pc = "endpoints_begin"
    /\ reader' = [reader EXCEPT !.pc = "endpoint_next",
                                !.it_size = Len(collector.endpoint_keys),
                                !.next = 1]
    /\ UNCHANGED <<collector, now, serviceVars, ghostVars, last_op, queryVars, last_log, raised, writers>>

\* one step of the iterator of line 111: RuntimeError when the dict has changed
\* size since the iterator was made, the end of the loop after the last key, and
\* else the next key, whose count, total_time and errors lines 112-116 read
R_EndpointNext ==
    /\ reader.pc = "endpoint_next"
    /\ IF Len(collector.endpoint_keys) # reader.it_size
       THEN /\ reader' = [reader EXCEPT !.pc = "raised"]
            /\ raised' = TRUE
       ELSE /\ UNCHANGED raised
            /\ IF reader.next > reader.it_size
               THEN reader' = [reader EXCEPT !.pc = "return", !.it_size = 0, !.next = 0]
               ELSE LET d == StatsOf(collector, collector.endpoint_keys[reader.next])
                    IN  reader' = [reader EXCEPT !.pc = "endpoint_last",
                                                 !.count = d.count,
                                                 !.total_time = d.total_time,
                                                 !.errors = d.errors]
    /\ UNCHANGED <<collector, now, serviceVars, ghostVars, last_op, queryVars, last_log, writers>>

\* stats['last_called'] is read after the calls of round (line 119), and the
\* summary of the key is stored (lines 115-120)
R_EndpointLast ==
    LET key == collector.endpoint_keys[reader.next]
        seen == [count |-> reader.count, total_time |-> reader.total_time,
                 errors |-> reader.errors,
                 last_called |-> StatsOf(collector, key).last_called]
    IN  /\ reader.pc = "endpoint_last"
        /\ reader' = [reader EXCEPT
                         !.pc = "endpoint_next",
                         !.next = @ + 1,
                         !.count = 0,
                         !.total_time = 0,
                         !.errors = 0,
                         !.stats.endpoints = (key :> EndpointSummary(seen)) @@ @]
        /\ UNCHANGED <<collector, now, serviceVars, ghostVars, last_op, queryVars, last_log,
                       raised, writers>>

\* get_stats returns and get_health_status applies its rules (lines 122-161)
R_Return ==
    /\ reader.pc = "return"
    /\ health_stats' = << reader.stats >>
    /\ health_result' = << HealthOf(reader.stats, now) >>
    /\ stats_result' = <<>>
    /\ last_op' = "get_health_status"
    /\ reader' = [IdleReader EXCEPT !.calls = reader.calls]
    /\ UNCHANGED <<collector, now, serviceVars, ghostVars, last_log, raised, writers>>

\* the samples the request-handling threads report
ConcSamples ==
    { <<"/api/test", "GET", 200, 3000>>, <<"/api/test", "GET", 400, 7000>> }

InitConc == InitWith(MetricsCollector(Capacity, 0), <<>>, <<>>)

NextConc ==
    \/ \E w \in Writers :
           \/ \E s \in ConcSamples : W_Call(w, s[1], s[2], s[3], s[4])
           \/ W_Append(w)
           \/ W_Lookup(w)
           \/ W_SetItem(w)
           \/ W_Load(w)
           \/ W_StoreCount(w)
           \/ W_StoreTime(w)
           \/ W_StoreLast(w)
           \/ W_StoreErrors(w)
           \/ W_Return(w)
    \/ R_Call
    \/ R_IterBegin
    \/ R_IterEnd
    \/ R_System
    \/ R_EndpointsBegin
    \/ R_EndpointNext
    \/ R_EndpointLast
    \/ R_Return

SpecConc == InitConc /\ [][NextConc]_vars


\* the response times of the samples of seq at the places of `places`
RECURSIVE SumTimes(_, _)
SumTimes(seq, places) ==
    IF places = {} THEN 0
    ELSE LET i == CHOOSE j \in places : TRUE
         IN  seq[i].response_time + SumTimes(seq, places \ {i})

AllWritersIdle == \A w \in Writers : writers[w].pc = "idle"

\* C3: when request-handling threads call log_request concurrently and all calls
\* have returned, every key's aggregate has count = the calls made for the key,
\* total_time = the sum of their response times and errors = the number of them
\* with status_code >= 400: no update is lost under any interleaving.
C3_NoLostUpdate ==
    AllWritersIdle =>
        /\ DOMAIN collector.endpoint_stats = IngestedKeys
        /\ \A key \in DOMAIN collector.endpoint_stats :
               LET d == StatsOf(collector, key)
                   places == PlacesOf(history, key)
               IN  /\ d.count = Cardinality(places)
                   /\ d.total_time = SumTimes(history, places)
                   /\ d.errors = Cardinality(places \cap ErrorPlaces(history))

\* the calls of the endpoints a stats structure reports, added up
RECURSIVE SumCalls(_, _)
SumCalls(endpoints, keys) ==
    IF keys = {} THEN 0
    ELSE LET k == CHOOSE x \in keys : TRUE
         IN  endpoints[k].calls + SumCalls(endpoints, keys \ {k})

\* C4: a stats structure returned while insertions run never shows an insertion
\* half applied: while no more samples were ingested than the buffer holds, the
\* calls of its endpoints add up to its total_requests.
C4_NoPartialInsertion ==
    (health_stats # <<>> /\ Len(history) <= collector.max_requests) =>
        SumCalls(health_stats[1].endpoints, DOMAIN health_stats[1].endpoints)
            = health_stats[1].total_requests

\* C7: a get_health_status call, in whatever state of the collector it runs
\* (insertions in progress included), never fails with an error and returns one of
\* the three verdicts; with no buffered request it reports an error rate of 0 and
\* no error-rate or response-time issue, so with no snapshot it returns healthy.
C7_HealthAlwaysReturns ==
    /\ ~raised
    /\ reader.pc # "raised"
    /\ health_result # <<>> =>
           /\ health_result[1].status \in {"healthy", "degraded", "unhealthy"}
           /\ health_stats[1].total_requests = 0 =>
                  /\ health_stats[1].error_rate_percent = 0
                  /\ \A i \in 1..Len(health_result[1].issues) :
                         health_result[1].issues[i].issue \in {"High CPU", "High memory"}
           /\ (health_stats[1].total_requests = 0 /\ health_stats[1].current_system = <<>>)
                  => health_result[1].status = "healthy"


----------------------------------------------------------------------------
(* The health rules at and around their thresholds: a collector of         *)
(* capacity Capacity that starts empty, or one of the default capacity     *)
(* that has already ingested HealthPrefill successful requests of 5 s      *)

\* successful requests the default-capacity collector of SpecHealth has ingested
\* before the behaviour starts
HealthPrefill == 8
\* add_request calls made in one behaviour of SpecHealth
HealthCalls == 2

HealthPrefix == [i \in 1..HealthPrefill |-> RequestMetrics("/api/test", "GET", 200, 5000, 0, <<>>)]

\* the add_request calls made before the behaviour started
CallsBefore == IF collector.max_requests = DefaultMaxRequests THEN HealthPrefill ELSE 0

InitHealth ==
    \/ InitWith(MetricsCollector(Capacity, 0), <<>>, <<>>)
    \/ InitWith(MetricsCollector(DefaultMaxRequests, 0), HealthPrefix, <<>>)

NextHealth ==
    \/ /\ Len(history) < CallsBefore + HealthCalls
       /\ \E sc \in {200, 500}, rt \in {5000, 7000} :
              AddRequest("/api/test", "GET", sc, rt, TRUE)
    \/ /\ Len(snap_history) < MaxSnapshots
       /\ \E cpu \in CpuValues, mem \in MemValues : AddSystemMetrics(cpu, mem)
    \/ GetHealthStatus

SpecHealth == InitHealth /\ [][NextHealth]_vars

\* the names of the issues of a health result, in order
IssueNames(result) == [i \in 1..Len(result.issues) |-> result.issues[i].issue]

\* C5: the issues of get_health_status are, in the order error rate, response
\* time, CPU, memory, exactly those of the rules whose strict condition holds on
\* the stats it computed: error_rate_percent > 10, avg_response_time_ms > 5000,
\* a snapshot with cpu_percent > 90, a snapshot with memory_percent > 90.  A value
\* at its threshold gives no issue; without a snapshot CPU and memory give none.
C5_IssuesAreTriggeredRules ==
    health_result # <<>> =>
        LET s == health_stats[1]
            Triggered(name) ==
                CASE name = "High error rate" -> s.error_rate_percent > 1000
                  [] name = "Slow response time" -> s.avg_response_time_ms > 500000
                  [] name = "High CPU" ->
                         s.current_system # <<>> /\ s.current_system[1].cpu_percent > 90
                  [] name = "High memory" ->
                         s.current_system # <<>> /\ s.current_system[1].memory_percent > 90
        IN  /\ IssueNames(health_result[1]) =
                   SelectSeq(<<"High error rate", "Slow response time", "High CPU",
                               "High memory">>, Triggered)
            /\ s.current_system = CurrentSystem(collector)
            /\ s.total_requests = Len(collector.requests)

\* error rate exactly 10 %, average response time exactly 5000 ms and CPU exactly
\* 90 % raise nothing; memory at 95 % is the only issue
C5_Witness ==
    /\ health_result # <<>>
    /\ health_stats[1].error_rate_percent = 1000
    /\ health_stats[1].avg_response_time_ms = 500000
    /\ health_stats[1].current_system # <<>>
    /\ health_stats[1].current_system[1].cpu_percent = 90
    /\ IssueNames(health_result[1]) = <<"High memory">>

\* C6: the status of get_health_status depends on the number of issues alone:
\* healthy iff none, degraded iff one or two, unhealthy iff three or more; all
\* four rules triggering together give unhealthy.
C6_StatusFromIssueCount ==
    health_result # <<>> =>
        LET n == Len(health_result[1].issues)
            status == health_result[1].status
        IN  /\ status = "healthy" <=> n = 0
            /\ status = "degraded" <=> n \in {1, 2}
            /\ status = "unhealthy" <=> n >= 3
            /\ n = Len(HealthIssues(health_stats[1]))

\* all four rules trigger
C6_Witness ==
    /\ health_result # <<>>
    /\ Len(health_result[1].issues) = 4
    /\ health_result[1].status = "unhealthy"

----------------------------------------------------------------------------
(* Lifetime aggregates against the bounded buffer: a collector of capacity *)
(* LifetimeCapacity that has ingested LifetimePrefill successful requests  *)

LifetimeCapacity == 10
LifetimePrefill == 8

LifetimePrefix ==
    [i \in 1..LifetimePrefill |-> RequestMetrics("/api/test", "GET", 200, 100, 0, <<>>)]

InitLifetime == InitWith(MetricsCollector(LifetimeCapacity, 0), LifetimePrefix, <<>>)

NextLifetime ==
    \/ /\ Len(history) < LifetimePrefill + MaxCalls
       /\ \E p \in ReqPairs, sc \in {200, 400, 500} : AddRequest(p[2], p[1], sc, 100, TRUE)
    \/ GetStats

SpecLifetime == InitLifetime /\ [][NextLifetime]_vars

\* C9: for every key the errors of its aggregate is the number of samples ever
\* ingested for the key with status_code >= 400 (so errors <= count), and
\* get_stats reports calls = count and error_rate = 100 * errors / count for it,
\* whatever has been evicted; 8 samples of status 200 and 2 of status 500 on one
\* endpoint give calls = 10, errors = 2 and a global error_rate_percent of 20.0.
C9_EndpointStatsAreLifetime ==
    /\ \A key \in DOMAIN collector.endpoint_stats :
           LET d == StatsOf(collector, key)
               places == PlacesOf(history, key)
           IN  /\ d.errors = Cardinality(places \cap ErrorPlaces(history))
               /\ d.errors <= d.count
               /\ stats_result # <<>> =>
                      /\ stats_result[1].endpoints[key].calls = Cardinality(places)
                      /\ stats_result[1].endpoints[key].calls = d.count
                      /\ NearestPercent(stats_result[1].endpoints[key].error_rate,
                                        d.errors, d.count)
    /\ ( /\ stats_result # <<>>
         /\ Len(history) = 10
         /\ PlacesOf(history, "GET /api/test") = 1..10
         /\ \A i \in 1..8 : history[i].status_code = 200
         /\ \A i \in 9..10 : history[i].status_code = 500 )
       => /\ stats_result[1].endpoints["GET /api/test"].calls = 10
          /\ StatsOf(collector, "GET /api/test").errors = 2
          /\ stats_result[1].endpoints["GET /api/test"].error_rate = 2000
          /\ stats_result[1].error_rate_percent = 2000

\* the scenario's ten samples and one more: the endpoint reports 11 calls, the
\* buffer holds 10, and the first sample is gone
C9_Witness ==
    /\ stats_result # <<>>
    /\ Len(history) = 11
    /\ \A i \in 9..10 : history[i].status_code = 500 /\ EndpointKey(history[i]) = "GET /api/test"
    /\ EndpointKey(history[11]) = "GET /api/test"
    /\ stats_result[1].endpoints["GET /api/test"].calls = 11
    /\ stats_result[1].total_requests = 10
    /\ StatsOf(collector, "GET /api/test").errors >= 2

\* the scenario itself has been reached and reported
C9_ScenarioReached ==
    /\ stats_result # <<>>
    /\ Len(history) = 10
    /\ \A i \in 9..10 : history[i].status_code = 500 /\ EndpointKey(history[i]) = "GET /api/test"

----------------------------------------------------------------------------
(* Ingestion through RequestLogger.log_request, with a log sink that may   *)
(* fail on any line                                                        *)

InitLog == InitWith(MetricsCollector(Capacity, 0), <<>>, <<>>)

NextLog ==
    \/ /\ Len(history) < MaxCalls
       /\ \E sc \in {200, 400, 500}, rt \in {10000, 11000}, sinks \in BOOLEAN \X BOOLEAN :
              LogRequest("/api/test", "GET", sc, rt, <<>>, sinks)
    \/ GetStats

SpecLog == InitLog /\ [][NextLog]_vars

LinesAt(level) == SelectSeq(last_log, LAMBDA l : l.line.level = level)

\* the tags of the lines of the last call
LogTags == [i \in 1..Len(last_log) |-> last_log[i].line.tag]

\* C11: a log_request call emits exactly one informational line and at most one
\* classification line, by strict precedence: the error-level server error line
\* iff status_code >= 500; else the warning-level client error line iff
\* status_code >= 400; else the warning-level slow request line iff the elapsed
\* time is above 10 s; else none.  A slow request with status_code >= 400 gets
\* no slow request line.
C11_LogLinePrecedence ==
    last_op = "log_request" =>
        LET m == history[Len(history)]
            server == m.status_code >= 500
            client == ~server /\ m.status_code >= 400
            slow == ~server /\ ~client /\ m.response_time > 10000
        IN  /\ Len(LinesAt("INFO")) = 1
            /\ last_log[1].line.level = "INFO"
            /\ last_log[1].line.tag = "Request"
            /\ last_log[1].line.key = m.method \o " " \o m.endpoint
            /\ last_log[1].line.status_code = m.status_code
            /\ Len(last_log) <= 2
            /\ server <=> (Len(last_log) = 2 /\ last_log[2].line.level = "ERROR"
                              /\ last_log[2].line.tag = "Server error")
            /\ client <=> (Len(last_log) = 2 /\ last_log[2].line.level = "WARNING"
                              /\ last_log[2].line.tag = "Client error")
            /\ slow <=> (Len(last_log) = 2 /\ last_log[2].line.level = "WARNING"
                            /\ last_log[2].line.tag = "Slow request")
            /\ (~server /\ ~client /\ ~slow) <=> Len(last_log) = 1

\* a slow request with status 400: the client error line and no slow request line
C11_Witness ==
    /\ last_op = "log_request"
    /\ history[Len(history)].status_code = 400
    /\ history[Len(history)].response_time > 10000
    /\ LogTags = <<"Request", "Client error">>


----------------------------------------------------------------------------
(* SystemMonitor: the sampling loop and its stop flag                      *)

\* successful samples taken in one behaviour of SpecMonitor; once they are
\* taken the OS metrics can only fail
MonitorSamples == 2

\* a loop that an exception of its try block ends
AfterFailureEndsLoop(loop) ==
    [loop EXCEPT !.pc = "done", !.failures = Min(@ + 1, 2)]

\* the coroutine after an exception in its try block (lines 195-197): the error
\* is logged and the coroutine sleeps
AfterFailure(loop) ==
    [loop EXCEPT !.pc = "sleep_err", !.failures = Min(@ + 1, 2)]

\* the coroutine after add_system_metrics has returned (lines 191-193)
AfterSample(loop) ==
    [loop EXCEPT !.pc = "sleep",
                 !.after_stop = IF loop.stopped THEN Min(@ + 1, 2) ELSE @]

\* the while condition of line 175
LoopContinues(monitor) == monitor.monitoring

\* one line handed to the logger, by its level and tag
MonitorLine(level, tag) == << [line |-> [level |-> level, tag |-> tag], sink_ok |-> TRUE] >>

\* start_system_monitoring(interval) / start_monitoring(interval) is called and
\* its coroutine created (lines 170, 254-256); no line of its body has run
StartMonitoring(l) ==
    /\ loops[l].pc = "idle"
    /\ loops' = [loops EXCEPT ![l].pc = "requested"]
    /\ last_op' = "start_monitoring"
    /\ UNCHANGED <<collector, now, ghostVars, queryVars, last_log, raised, threadVars,
                   system_monitor, response>>

\* the coroutine runs lines 172-173
L_Enter(l) ==
    /\ loops[l].pc = "requested"
    /\ system_monitor' = [system_monitor EXCEPT !.monitoring = TRUE]
    /\ loops' = [loops EXCEPT ![l].pc = "check"]
    /\ last_log' = MonitorLine("INFO", "Starting system monitoring")
    /\ last_op' = "loop_enter"
    /\ UNCHANGED <<collector, now, ghostVars, queryVars, raised, threadVars, response>>

\* while self.monitoring (line 175)
L_Check(l) ==
    /\ loops[l].pc = "check"
    /\ loops' = [loops EXCEPT ![l].pc = IF LoopContinues(system_monitor) THEN "try" ELSE "done"]
    /\ last_op' = "loop_check"
    /\ UNCHANGED <<collector, now, ghostVars, queryVars, last_log, raised, threadVars,
                   system_monitor, response>>

\* the try block up to its sleep (lines 176-191): with ok the OS metrics are
\* obtained and the snapshot is inserted; without, one of lines 178-180 raises
\* and the handler logs it (lines 195-196)
L_Sample(l, ok, cpu_percent, memory_percent) ==
    /\ loops[l].pc = "try"
    /\ IF ok
       THEN LET metrics == SystemMetrics(cpu_percent, memory_percent, now)
            IN  /\ collector' = add_system_metrics(collector, metrics)
                /\ snap_history' = Append(snap_history, metrics)
                /\ last_log' = [i \in 1..Len(UsageLines(metrics)) |->
                                   [line |-> UsageLines(metrics)[i], sink_ok |-> TRUE]]
                /\ loops' = [loops EXCEPT ![l] = AfterSample(@)]
       ELSE /\ UNCHANGED <<collector, snap_history>>
            /\ last_log' = MonitorLine("ERROR", "System monitoring error")
            /\ loops' = [loops EXCEPT ![l] = AfterFailure(@)]
    /\ last_op' = IF ok THEN "loop_sample" ELSE "loop_failure"
    /\ NoResults
    /\ UNCHANGED <<now, history, raised, threadVars, system_monitor, response>>

\* one second of asyncio.sleep(interval) passes (lines 193, 197).  The snapshots'
\* timestamps play no part in the loop, and the wall clock is left alone.
L_SleepTick(l) ==
    /\ loops[l].pc \in {"sleep", "sleep_err"}
    /\ loops[l].slept < DefaultInterval
    /\ loops' = [loops EXCEPT ![l].slept = @ + 1]
    /\ last_op' = "loop_sleep"
    /\ UNCHANGED <<collector, now, ghostVars, queryVars, last_log, raised, threadVars,
                   system_monitor, response>>

\* asyncio.sleep(interval) returns and the coroutine goes back to line 175
L_Wake(l) ==
    /\ loops[l].pc \in {"sleep", "sleep_err"}
    /\ loops[l].slept = DefaultInterval
    /\ loops' = [loops EXCEPT ![l].pc = "check", ![l].slept = 0]
    /\ last_op' = "loop_wake"
    /\ UNCHANGED <<collector, now, ghostVars, queryVars, last_log, raised, threadVars,
                   system_monitor, response>>

\* stop_system_monitoring() / stop_monitoring() (lines 199-202, 258-260), from
\* another task of the event loop or from another thread
StopMonitoring ==
    /\ system_monitor' = [system_monitor EXCEPT !.monitoring = FALSE]
    /\ loops' = [l \in Loops |->
                    IF loops[l].pc \in {"idle", "done"} THEN loops[l]
                    ELSE [loops[l] EXCEPT !.stopped = TRUE]]
    /\ last_log' = MonitorLine("INFO", "System monitoring stopped")
    /\ last_op' = "stop_monitoring"
    /\ UNCHANGED <<collector, now, ghostVars, queryVars, raised, threadVars, response>>

\* a step of the coroutine l
LoopStep(l) ==
    \/ L_Enter(l)
    \/ L_Check(l)
    \/ \E ok \in BOOLEAN, cpu \in CpuValues, mem \in MemValues :
           /\ ok => Len(snap_history) < MonitorSamples
           /\ L_Sample(l, ok, cpu, mem)
    \/ L_SleepTick(l)
    \/ L_Wake(l)

InitMonitor == InitWith(MetricsCollector(Capacity, 0), <<>>, <<>>)

NextMonitor ==
    \/ StartMonitoring("l1")
    \/ LoopStep("l1")
    \/ StopMonitoring

\* the event loop runs a coroutine that can run, and time passes
SpecMonitor == InitMonitor /\ [][NextMonitor]_vars /\ WF_vars(LoopStep("l1"))

\* C12: while stop has not been signaled, a failure in an iteration of the
\* sampling loop neither ends the loop nor is propagated: the error is logged, no
\* snapshot is inserted for the iteration, the loop sleeps one full interval and
\* then attempts the next sample; so a loop that is never stopped attempts
\* samples again and again for ever.
C12_LoopSurvivesFailures ==
    /\ [](last_op = "loop_failure" =>
              /\ loops["l1"].pc = "sleep_err"
              /\ ~raised
              /\ Len(last_log) = 1 /\ last_log[1].line.level = "ERROR"
              /\ Len(collector.system_metrics) = Len(snap_history))
    /\ [][last_op' = "loop_failure" => collector' = collector]_vars
    /\ [][loops["l1"].pc = "sleep_err" /\ loops'["l1"].pc # "sleep_err" =>
              loops["l1"].slept = DefaultInterval /\ loops'["l1"].pc = "check"]_vars
    /\ [][loops["l1"].pc = "check" /\ loops["l1"].failures > 0 /\ loops'["l1"].pc = "done" =>
              ~system_monitor.monitoring]_vars
    /\ ([]<>(loops["l1"].pc \in {"idle", "try"}) \/ <>(last_op = "stop_monitoring"))

\* a sample is attempted after two iterations have failed
C12_Witness ==
    /\ loops["l1"].pc = "try"
    /\ loops["l1"].failures = 2
    /\ ~loops["l1"].stopped
    /\ system_monitor.monitoring

\* C13: once stop_monitoring has been signaled for a requested sampling task, the
\* loop eventually terminates, and after the signal it inserts at most one
\* further snapshot.
C13_StopTerminatesLoop ==
    /\ [](loops["l1"].stopped => <>(loops["l1"].pc = "done"))
    /\ [](loops["l1"].after_stop <= 1)

\* the same for a loop that has entered its body (line 172) before the signal
C13_StopAfterEnter ==
    /\ [](last_op = "stop_monitoring" /\ loops["l1"].pc \notin {"idle", "requested", "done"}
              => <>(loops["l1"].pc = "done"))


----------------------------------------------------------------------------
(* Queries as the wall clock advances                                      *)

\* seconds that pass in one step of the clock of SpecClock
TickStep == 150
\* the clock reading at which SpecClock stops the clock
MaxTime == 600

InitClock == InitWith(MetricsCollector(Capacity, 0), <<>>, <<>>)

NextClock ==
    \/ /\ Len(history) < MaxCalls
       /\ \E sc \in StatusCodes : AddRequest("/api/test", "GET", sc, 3000, TRUE)
    \/ /\ Len(snap_history) < MaxSnapshots
       /\ AddSystemMetrics(95, 50)
    \/ /\ now + TickStep <= MaxTime
       /\ Tick(TickStep)
    \/ GetStats
    \/ GetHealthStatus

SpecClock == InitClock /\ [][NextClock]_vars

\* the fields of a get_stats result other than those in skipped
StatsFields == {"uptime_seconds", "total_requests", "recent_requests_5min", "error_rate_percent",
                "avg_response_time_ms", "current_system", "endpoints", "timestamp"}

SameExcept(a, b, skipped) == \A f \in StatsFields \ skipped : a[f] = b[f]

\* C14 as stated: two get_stats calls with no insertion between them return
\* results identical in every field except timestamp.
C14_IdenticalExceptTimestamp ==
    Len(stats_result) = 2 => SameExcept(stats_result[1], stats_result[2], {"timestamp"})

\* C14, amended: two get_stats calls with no insertion between them return
\* results identical in every field except timestamp, uptime_seconds and
\* recent_requests_5min, which follow the time of the call; two calls at the
\* same clock reading return results identical in every field, and
\* recent_requests_5min never grows from the first call to the second.
C14_IdenticalExceptTimeFields ==
    Len(stats_result) = 2 =>
        /\ SameExcept(stats_result[1], stats_result[2],
                      {"timestamp", "uptime_seconds", "recent_requests_5min"})
        /\ stats_result[1].timestamp = stats_result[2].timestamp =>
               stats_result[1] = stats_result[2]
        /\ stats_result[1].recent_requests_5min <= stats_result[2].recent_requests_5min
        /\ stats_result[1].uptime_seconds - stats_result[2].uptime_seconds
               = stats_result[1].timestamp - stats_result[2].timestamp

\* a second call five minutes after the first: the buffered sample has left the
\* five-minute window and the uptime has grown
C14_Witness ==
    /\ Len(stats_result) = 2
    /\ stats_result[1].timestamp >= stats_result[2].timestamp + 300
    /\ stats_result[2].recent_requests_5min = 1
    /\ stats_result[1].recent_requests_5min = 0
    /\ stats_result[1].total_requests = 1
    /\ stats_result[1].current_system # <<>>


\* C15: get_stats and get_health_status are pure reads: a call leaves the
\* request buffer, the snapshot buffer, the endpoint aggregate table with its key
\* set and the start time as they were.
C15_QueriesArePureReads ==
    [][last_op' \in {"get_stats", "get_health_status"} =>
           /\ collector'.requests = collector.requests
           /\ collector'.system_metrics = collector.system_metrics
           /\ DOMAIN collector'.endpoint_stats = DOMAIN collector.endpoint_stats
           /\ \A k \in DOMAIN collector.endpoint_stats :
                  StatsOf(collector', k) = StatsOf(collector, k)
           /\ collector'.endpoint_keys = collector.endpoint_keys
           /\ collector'.start_time = collector.start_time
           /\ collector'.max_requests = collector.max_requests]_vars

\* a health query has run on a collector that has evicted a sample and holds a
\* snapshot, and the table still has exactly the keys that were ingested
C15_Witness ==
    /\ last_op = "get_health_status"
    /\ Len(history) > collector.max_requests
    /\ Len(collector.requests) = collector.max_requests
    /\ Len(collector.system_metrics) = 1
    /\ DOMAIN collector.endpoint_stats = IngestedKeys
    /\ Cardinality(IngestedKeys) = 2


----------------------------------------------------------------------------
(* Several snapshots                                                       *)

\* add_system_metrics calls made in one behaviour of SpecSnapshots
SnapshotCalls == 3

UsageValues == {50, 95}

InitSnapshots == InitWith(MetricsCollector(Capacity, 0), <<>>, <<>>)

NextSnapshots ==
    \/ /\ Len(snap_history) < SnapshotCalls
       /\ \E cpu \in UsageValues, mem \in UsageValues : AddSystemMetrics(cpu, mem)
    \/ /\ Len(history) < MaxCalls
       /\ AddRequest("/api/test", "GET", 200, 3000, TRUE)
    \/ GetStats
    \/ GetHealthStatus

SpecSnapshots == InitSnapshots /\ [][NextSnapshots]_vars

\* the snapshot inserted last (Optional)
NewestSnapshot == IF snap_history = <<>> THEN <<>> ELSE << snap_history[Len(snap_history)] >>

\* C16: current_system of get_stats is the snapshot inserted last, absent iff
\* none was ever inserted, and the CPU and memory rules of get_health_status read
\* that snapshot alone; one snapshot with cpu_percent 95 and memory_percent 50 and
\* no requests gives the single issue high CPU and the verdict degraded.
C16_CurrentSystemIsNewest ==
    /\ stats_result # <<>> => stats_result[1].current_system = NewestSnapshot
    /\ health_result # <<>> =>
           LET names == {IssueNames(health_result[1])[i] : i \in 1..Len(health_result[1].issues)}
           IN  /\ health_stats[1].current_system = NewestSnapshot
               /\ "High CPU" \in names <=>
                      (NewestSnapshot # <<>> /\ NewestSnapshot[1].cpu_percent > 90)
               /\ "High memory" \in names <=>
                      (NewestSnapshot # <<>> /\ NewestSnapshot[1].memory_percent > 90)
    /\ ( /\ health_result # <<>>
         /\ history = <<>>
         /\ Len(snap_history) = 1
         /\ snap_history[1].cpu_percent = 95
         /\ snap_history[1].memory_percent = 50 )
       => /\ IssueNames(health_result[1]) = <<"High CPU">>
          /\ health_result[1].status = "degraded"

\* two snapshots above both limits are buffered behind a newest one below them,
\* and the verdict is healthy
C16_Witness ==
    /\ health_result # <<>>
    /\ Len(snap_history) = 3
    /\ \A i \in 1..2 : snap_history[i].cpu_percent = 95 /\ snap_history[i].memory_percent = 95
    /\ snap_history[3].cpu_percent = 50 /\ snap_history[3].memory_percent = 50
    /\ Len(collector.system_metrics) = 3
    /\ health_result[1].issues = <<>>
    /\ health_result[1].status = "healthy"

\* the scenario of C16 has been queried
C16_ScenarioReached ==
    /\ health_result # <<>>
    /\ history = <<>>
    /\ Len(snap_history) = 1
    /\ snap_history[1].cpu_percent = 95
    /\ snap_history[1].memory_percent = 50


\* C17: recent_requests_5min of get_stats is the number of samples now in the
\* request buffer whose timestamp is less than five minutes before the time of
\* the query; evicted samples are not counted, so it never exceeds total_requests.
C17_RecentCountsBufferedOnly ==
    stats_result # <<>> =>
        LET r == stats_result[1]
            buffered == LastN(history, collector.max_requests)
            young == {i \in 1..Len(buffered) : r.timestamp - buffered[i].timestamp < 300}
        IN  /\ collector.requests = buffered
            /\ r.recent_requests_5min = Cardinality(young)
            /\ r.recent_requests_5min <= r.total_requests
            /\ r.total_requests = Len(buffered)

\* three samples ingested into a buffer of two; at the query one buffered sample
\* is exactly five minutes old and is not counted, the other one is counted
C17_Witness ==
    /\ stats_result # <<>>
    /\ Len(history) = 3
    /\ collector.max_requests = 2
    /\ \E i \in 1..2 : stats_result[1].timestamp - collector.requests[i].timestamp = 300
    /\ stats_result[1].timestamp - history[1].timestamp >= 300
    /\ stats_result[1].recent_requests_5min = 1
    /\ stats_result[1].total_requests = 2


----------------------------------------------------------------------------
(* Endpoint keys                                                           *)

\* (method, endpoint) pairs with spaces in them
KeyPairs == { <<"GET", "/a b">>, <<"GET /a", "b">>, <<"GET", "/a">> }

InitKeys == InitWith(MetricsCollector(Capacity, 0), <<>>, <<>>)

NextKeys ==
    \/ /\ Len(history) < MaxCalls
       /\ \E p \in KeyPairs, sc \in StatusCodes : AddRequest(p[2], p[1], sc, 3000, TRUE)
    \/ GetStats

SpecKeys == InitKeys /\ [][NextKeys]_vars

\* C18: aggregates are keyed by the (method, endpoint) pair: two samples update
\* the same entry iff they have the same method and the same endpoint, whatever
\* characters the strings contain, so an entry counts the samples of one pair.
C18_KeyedByPair ==
    /\ \A i, j \in 1..Len(history) :
           EndpointKey(history[i]) = EndpointKey(history[j])
               <=> ( /\ history[i].method = history[j].method
                     /\ history[i].endpoint = history[j].endpoint )
    /\ \A i \in 1..Len(history) :
           StatsOf(collector, EndpointKey(history[i])).count =
               Cardinality({j \in 1..Len(history) :
                               /\ history[j].method = history[i].method
                               /\ history[j].endpoint = history[i].endpoint})

\* the same for methods without a space
C18_KeyedByPairPlainMethods ==
    \A i, j \in 1..Len(history) :
        (history[i].method = "GET" /\ history[j].method = "GET") =>
            ( EndpointKey(history[i]) = EndpointKey(history[j])
                  <=> history[i].endpoint = history[j].endpoint )


\* C19: the two insertion paths do not interfere: add_system_metrics changes the
\* snapshot buffer alone and leaves the request buffer and the aggregate table as
\* they were; add_request changes the request buffer and the aggregate entry of
\* the sample's key alone and leaves the snapshot buffer and every other key's
\* aggregate as they were.
C19_InsertionPathsDoNotInterfere ==
    [][ /\ last_op' = "add_system_metrics" =>
               /\ collector'.requests = collector.requests
               /\ collector'.endpoint_stats = collector.endpoint_stats
               /\ collector'.endpoint_keys = collector.endpoint_keys
               /\ collector'.dicts = collector.dicts
               /\ collector'.start_time = collector.start_time
               /\ history' = history
               /\ Len(snap_history') = Len(snap_history) + 1
        /\ last_op' = "add_request" =>
               LET key == EndpointKey(history'[Len(history')])
               IN  /\ collector'.system_metrics = collector.system_metrics
                   /\ snap_history' = snap_history
                   /\ collector'.start_time = collector.start_time
                   /\ DOMAIN collector'.endpoint_stats = DOMAIN collector.endpoint_stats \cup {key}
                   /\ \A k \in DOMAIN collector.endpoint_stats \ {key} :
                          StatsOf(collector', k) = StatsOf(collector, k)
                   /\ StatsOf(collector', key).count =
                          (IF key \in DOMAIN collector.endpoint_stats
                           THEN StatsOf(collector, key).count ELSE 0) + 1
                   /\ Len(history') = Len(history) + 1 ]_vars

\* a request has been inserted after a snapshot and after a request of another
\* key, and the other key's aggregate and the snapshot are still there
C19_Witness ==
    /\ last_op = "add_request"
    /\ Len(history) = 2
    /\ EndpointKey(history[1]) # EndpointKey(history[2])
    /\ StatsOf(collector, EndpointKey(history[1])).count = 1
    /\ Len(collector.system_metrics) = 1
    /\ collector.system_metrics[1] = snap_history[1]


----------------------------------------------------------------------------
(* The monitoring middleware (lines 268-306)                               *)

\* what `await call_next(request)` can do: return a response with a status
\* code, or raise an exception of some class with some message
Returns(status_code) == [kind |-> "response", status_code |-> status_code, class |-> "", message |-> ""]
Raises(class, message) == [kind |-> "raise", status_code |-> 0, class |-> class, message |-> message]

\* the exception classes that `except Exception` (line 290) catches; the others
\* (asyncio.CancelledError, KeyboardInterrupt, SystemExit derive from
\* BaseException alone) pass through it
ExceptionClasses == {"ValueError", "RuntimeError"}

\* whether the except clause of line 290 catches what call_next raised
Caught(outcome) == outcome.kind = "raise" /\ outcome.class \in ExceptionClasses

HandlerOutcomes ==
    { Returns(200), Returns(404), Raises("ValueError", "boom"), Raises("CancelledError", "") }

\* the samples monitoring_middleware passes to log_request_metrics for a
\* request whose call_next did `outcome` after `elapsed` ms: the response's
\* status code (lines 279-286), or 500 with str(e) (lines 294-302); a failure of
\* the first log_request_metrics call would be caught at line 290 and logged again
MiddlewareSamples(path, method, outcome, elapsed, t, sinks) ==
    IF outcome.kind = "response"
    THEN << RequestMetrics(path, method, outcome.status_code, elapsed, t, <<>>) >>
         \o (IF LoggerRaises(sinks[1]) \/ LoggerRaises(sinks[2])
             THEN << RequestMetrics(path, method, 500, elapsed, t, <<"logging failed">>) >>
             ELSE <<>>)
    ELSE IF Caught(outcome)
    THEN << RequestMetrics(path, method, 500, elapsed, t, <<outcome.message>>) >>
    ELSE <<>>

\* what monitoring_middleware does in turn: return the response (line 288),
\* raise e (line 304), or let through what it did not catch
MiddlewareResult(outcome, sinks) ==
    IF outcome.kind = "response" /\ (LoggerRaises(sinks[1]) \/ LoggerRaises(sinks[2]))
    THEN Raises("Exception", "logging failed")
    ELSE outcome

\* await monitoring_middleware(request, call_next), lines 271-304
MonitoringMiddleware(path, method, outcome, elapsed, sinks) ==
    LET samples == MiddlewareSamples(path, method, outcome, elapsed, now, sinks)
        result == MiddlewareResult(outcome, sinks)
        lines(m) == << [line |-> RequestLine(m), sink_ok |-> sinks[1]] >> \o
                    [i \in 1..Len(SpecialCaseLines(m)) |->
                        [line |-> SpecialCaseLines(m)[i], sink_ok |-> sinks[2]]]
    IN  /\ collector' = ReplayRequests(collector, samples)
        /\ history' = history \o samples
        /\ last_log' = IF samples = <<>> THEN <<>> ELSE lines(samples[Len(samples)])
        /\ response' = << [call_next |-> outcome, result |-> result, recorded |-> samples] >>
        /\ raised' = (result.kind = "raise")
        /\ last_op' = "middleware"
        /\ NoResults
        /\ UNCHANGED <<now, snap_history, threadVars, system_monitor, loops>>

InitMiddleware == InitWith(MetricsCollector(Capacity, 0), <<>>, <<>>)

NextMiddleware ==
    \/ /\ Len(history) < MaxCalls
       /\ \E outcome \in HandlerOutcomes, elapsed \in {3000, 11000}, sinks \in BOOLEAN \X BOOLEAN :
              MonitoringMiddleware("/api/test", "GET", outcome, elapsed, sinks)
    \/ GetStats

SpecMiddleware == InitMiddleware /\ [][NextMiddleware]_vars

\* C20: a request that passes through the middleware is ingested exactly once:
\* when the handler returns a response, one sample with the response's status
\* code is recorded and the response is returned; when it raises, one sample
\* with status 500 and the error message is recorded and the same exception is
\* raised again.
C20_IngestedExactlyOnce ==
    last_op = "middleware" =>
        LET r == response[1]
        IN  /\ Len(r.recorded) = 1
            /\ LastN(history, 1) = r.recorded
            /\ r.result = r.call_next
            /\ raised <=> r.call_next.kind = "raise"
            /\ r.call_next.kind = "response" =>
                   r.recorded[1].status_code = r.call_next.status_code
            /\ r.call_next.kind = "raise" =>
                   /\ r.recorded[1].status_code = 500
                   /\ r.recorded[1].error_message = <<r.call_next.message>>

\* the same for handlers that return or raise a subclass of Exception
C20_IngestedExactlyOnceUnlessBaseException ==
    (last_op = "middleware" /\ ~(response[1].call_next.kind = "raise"
                                  /\ response[1].call_next.class \notin {"ValueError", "RuntimeError"})) =>
        LET r == response[1]
        IN  /\ Len(r.recorded) = 1
            /\ LastN(history, 1) = r.recorded
            /\ r.result = r.call_next
            /\ r.call_next.kind = "response" =>
                   r.recorded[1].status_code = r.call_next.status_code
            /\ r.call_next.kind = "raise" =>
                   /\ r.recorded[1].status_code = 500
                   /\ r.recorded[1].error_message = <<r.call_next.message>>


----------------------------------------------------------------------------
(* One SystemMonitor, several start_monitoring calls                       *)
(* The OS metrics are 95 % CPU and 50 % memory for the first               *)
(* MonitorSamples samples and fail afterwards.                             *)

\* a coroutine that is in its loop: it has entered its body and not returned
Active(l) == loops[l].pc \in {"check", "try", "sleep", "sleep_err"}

InitMonitors == InitWith(MetricsCollector(Capacity, 0), <<>>, <<>>)

NextMonitors ==
    \/ \E l \in Loops : StartMonitoring(l)
    \/ \E l \in Loops :
           \/ L_Enter(l)
           \/ L_Check(l)
           \/ L_Sample(l, Len(snap_history) < MonitorSamples, 95, 50)
           \/ L_SleepTick(l)
           \/ L_Wake(l)
    \/ StopMonitoring

SpecMonitors == InitMonitors /\ [][NextMonitors]_vars

\* C21: under any interleaving of start_monitoring and stop_monitoring calls at
\* most one sampling loop of the SystemMonitor is active at a time, and a loop
\* for which stop_monitoring was called does not go on to take samples.
C21_AtMostOneActiveLoop ==
    /\ Cardinality({l \in Loops : Active(l)}) <= 1
    /\ \A l \in Loops : loops[l].after_stop <= 1


\* the stop signal for l1 is lost to a later start: l1 was stopped while it was
\* asleep, l2 was started before l1 woke up, and both loops go on sampling
C21_StoppedLoopStillSampling ==
    /\ loops["l1"].stopped
    /\ loops["l1"].after_stop = 2
    /\ Active("l1")
    /\ Active("l2")
    /\ ~loops["l2"].stopped

=============================================================================
